---- MODULE Spec2Model ----
(***************************************************************************)
(* Model of the mail service: configuration resolution (config/env.ts),    *)
(* the relay adapter (services/smtp-service.ts), the Exchange adapter      *)
(* (services/ews-service.ts), the dispatching sendMail and the startup     *)
(* verification (services/mail.ts), the POST /send-email route             *)
(* (routes/email.ts) and the server bootstrap (server.ts, index.ts).       *)
(*                                                                         *)
(* Optional values (string | undefined) are sequences of length 0 or 1.    *)
(* Errors are records [name, message, cause] where cause is a sequence of  *)
(* length 0 or 1 holding the wrapped error.                                *)
(***************************************************************************)
EXTENDS Integers, Sequences, FiniteSets, TLC

VARIABLES
    env,          \* process.env, as far as the configuration reads it
    config,       \* the resolved configuration (config/env.ts `config`)
    phase,        \* position of the process: module load, startup, serving
    transporter,  \* smtp-service.ts module variable `transporter`
    verify,       \* verifyMailTransporter's locals and outcome
    call,         \* the sendMail call in progress and what came of it
    subj,         \* subject under test and the subjects derived from it
    health,       \* the client's healthCheck() call and what it returned
    created,      \* number of nodemailer.createTransport calls so far
    tasks,        \* relay adapter calls in progress (verify / send)
    san           \* HTML under test and what the sanitizer made of it

vars == <<env, config, phase, transporter, verify, call, subj, health, created,
          tasks, san>>

None == <<>>
Some(x) == <<x>>
IsSet(o) == o # <<>>
Val(o) == o[1]

\* a ?? b on optional values
Coalesce(a, b) == IF IsSet(a) THEN a ELSE b

\* !x of an optional string: undefined and "" are both falsy
WrongFalsy(o) == o = None

Falsy(o) == o = None \/ o = Some("")

(***************************************************************************)
(* config/env.ts                                                           *)
(***************************************************************************)

truthy == {"1", "true", "yes", "y", "on"}
falsy == {"0", "false", "no", "n", "off"}

\* optional(key): undefined when the variable is unset or empty (the values
\* of the input sets carry no surrounding blanks, so trim() leaves them)
optional(raw) == IF raw = None \/ raw = Some("") THEN None ELSE raw

\* optionalBoolean(key): [ok, value]; ok = FALSE models the thrown Error
optionalBoolean(raw) ==
    LET o == optional(raw) IN
    IF o = None THEN [ok |-> TRUE, value |-> None]
    ELSE IF Val(o) \in truthy THEN [ok |-> TRUE, value |-> Some(TRUE)]
    ELSE IF Val(o) \in falsy THEN [ok |-> TRUE, value |-> Some(FALSE)]
    ELSE [ok |-> FALSE, value |-> None]

DefaultPortSecure == 465
DefaultPortPlain == 587

\* the port/secure/requireTLS defaulting of a host-based transport
WrongHostTransport(smtpPort, smtpSecure, smtpRequireTLS) ==
    LET port == IF IsSet(smtpPort) /\ Val(smtpPort) # 0 THEN Val(smtpPort)
                ELSE DefaultPortPlain
        secure == Val(Coalesce(smtpSecure, Some(port = DefaultPortSecure)))
        requireTLS == Val(Coalesce(smtpRequireTLS, Some(~secure)))
    IN [type |-> "smtp", port |-> port, secure |-> secure,
        requireTLS |-> Some(requireTLS)]

HostTransport(smtpPort, smtpSecure, smtpRequireTLS) ==
    LET port == Val(Coalesce(smtpPort,
                      Some(IF smtpSecure = Some(TRUE) THEN DefaultPortSecure
                           ELSE DefaultPortPlain)))
        secure == Val(Coalesce(smtpSecure, Some(port = DefaultPortSecure)))
        requireTLS == Val(Coalesce(smtpRequireTLS, Some(~secure)))
    IN [type |-> "smtp", port |-> port, secure |-> secure,
        requireTLS |-> Some(requireTLS)]

\* the relay credentials of parseMailTransport(): [ok, auth]; ok = FALSE
\* models the Error thrown for a user without a password
WrongCredentials(e) ==
    LET explicitUser == optional(e.SMTP_USER)
        explicitPassword == optional(e.SMTP_PASSWORD)
        user == Coalesce(explicitUser, optional(e.GMAIL_USER))
        password == IF IsSet(explicitUser) THEN explicitPassword
                    ELSE Coalesce(explicitPassword, optional(e.GMAIL_APP_PASSWORD))
    IN IF IsSet(user) /\ ~IsSet(password) THEN [ok |-> FALSE, auth |-> None]
       ELSE [ok |-> TRUE,
             auth |-> IF IsSet(user) /\ IsSet(password)
                      THEN Some([user |-> Val(user), pass |-> Val(password)])
                      ELSE None]

Credentials(e) ==
    LET explicitUser == optional(e.SMTP_USER)
        gmailUser == optional(e.GMAIL_USER)
        user == Coalesce(explicitUser, gmailUser)
        explicitPassword == optional(e.SMTP_PASSWORD)
        gmailPassword == optional(e.GMAIL_APP_PASSWORD)
        password == Coalesce(explicitPassword, gmailPassword)
    IN IF IsSet(user) /\ ~IsSet(password) THEN [ok |-> FALSE, auth |-> None]
       ELSE [ok |-> TRUE,
             auth |-> IF IsSet(user) /\ IsSet(password)
                      THEN Some([user |-> Val(user), pass |-> Val(password)])
                      ELSE None]

\* a transport descriptor with its auth member
WithAuth(t, auth) ==
    [type |-> t.type, port |-> t.port, secure |-> t.secure,
     requireTLS |-> t.requireTLS, auth |-> auth]

NoTransport ==
    [type |-> "none", port |-> 0, secure |-> FALSE, requireTLS |-> None,
     auth |-> None]

\* parseMailTransport(): [ok, transport, auth]
parseMailTransport(e) ==
    LET smtpUrl == optional(e.SMTP_URL)
        smtpSecure == optionalBoolean(e.SMTP_SECURE)
        smtpRequireTLS == optionalBoolean(e.SMTP_REQUIRE_TLS)
        cred == Credentials(e)
        failed == [ok |-> FALSE, transport |-> NoTransport, auth |-> None]
    IN IF ~smtpSecure.ok \/ ~smtpRequireTLS.ok THEN failed
       ELSE IF ~cred.ok THEN failed
       ELSE IF IsSet(smtpUrl)
       THEN [ok |-> TRUE,
             transport |-> WithAuth([type |-> "url", port |-> 0, secure |-> FALSE,
                                     requireTLS |-> smtpRequireTLS.value],
                                    cred.auth),
             auth |-> cred.auth]
       ELSE [ok |-> TRUE,
             transport |-> WithAuth(HostTransport(e.SMTP_PORT, smtpSecure.value,
                                                  smtpRequireTLS.value),
                                    cred.auth),
             auth |-> cred.auth]

WrongExchangePresent(e) ==
    /\ IsSet(optional(e.EXCHANGE_URL))
    /\ IsSet(optional(e.EXCHANGE_USERNAME))
    /\ IsSet(optional(e.EXCHANGE_FROM_EMAIL))

\* the Exchange section is present only when all four settings are
ExchangePresent(e) ==
    /\ IsSet(optional(e.EXCHANGE_URL))
    /\ IsSet(optional(e.EXCHANGE_USERNAME))
    /\ IsSet(optional(e.EXCHANGE_PASSWORD))
    /\ IsSet(optional(e.EXCHANGE_FROM_EMAIL))

\* the default provider: MAIL_PROVIDER when set, else by Exchange presence
WrongDefaultProvider(explicit, exchangePresent) ==
    IF exchangePresent THEN "ews"
    ELSE IF IsSet(explicit) THEN Val(explicit) ELSE "smtp"

DefaultProvider(explicit, exchangePresent) ==
    IF IsSet(explicit) THEN Val(explicit)
    ELSE IF exchangePresent THEN "ews" ELSE "smtp"

\* zod's email check, reduced to: something, an @, something
IsEmail(s) == \E i \in 2..(Len(s) - 1) : SubSeq(s, i, i) = "@"

\* the from-address of the Exchange section, when the section is present
ExchangeFromEmail(e) ==
    IF ExchangePresent(e) THEN optional(e.EXCHANGE_FROM_EMAIL) ELSE None

ApiKey == "secret"
SenderName == "Mail Service"

WrongParseSender(e, auth) ==
    LET address == Coalesce(optional(e.MAIL_FROM_ADDRESS),
                            IF IsSet(auth) THEN Some(Val(auth).user) ELSE None)
        name == Coalesce(optional(e.MAIL_FROM_NAME), Some(SenderName))
    IN IF ~IsSet(address) THEN [ok |-> FALSE, name |-> "", address |-> ""]
       ELSE [ok |-> TRUE, name |-> Val(name), address |-> Val(address)]

\* parseSender(auth): [ok, name, address]; ok = FALSE models the Error thrown
\* for a missing address and the ZodError thrown for a malformed one
parseSender(e, auth) ==
    LET address == Coalesce(optional(e.MAIL_FROM_ADDRESS),
                            IF IsSet(auth) THEN Some(Val(auth).user) ELSE None)
        name == Coalesce(optional(e.MAIL_FROM_NAME), Some(SenderName))
    IN IF ~IsSet(address) THEN [ok |-> FALSE, name |-> "", address |-> ""]
       ELSE IF ~IsEmail(Val(address)) THEN [ok |-> FALSE, name |-> "", address |-> ""]
       ELSE [ok |-> TRUE, name |-> Val(name), address |-> Val(address)]

\* the module-level evaluation of config/env.ts: the transport first, then
\* the sender; the first throw ends the module load
ResolveConfig(e) ==
    LET t == parseMailTransport(e)
        sender == IF t.ok THEN parseSender(e, t.auth)
                  ELSE [ok |-> FALSE, name |-> "", address |-> ""]
    IN [status |-> IF t.ok /\ sender.ok THEN "loaded" ELSE "failed",
        failedAt |-> IF ~t.ok THEN "transport"
                     ELSE IF ~sender.ok THEN "sender" ELSE "none",
        transport |-> t.transport,
        auth |-> t.auth,
        exchange |-> ExchangePresent(e),
        exchangeFromEmail |-> ExchangeFromEmail(e),
        defaultProvider |-> DefaultProvider(optional(e.MAIL_PROVIDER), ExchangePresent(e)),
        apiKey |-> ApiKey,
        senderName |-> IF sender.ok THEN sender.name ELSE SenderName,
        senderAddress |-> sender.address]

UnloadedConfig ==
    [status |-> "unloaded",
     failedAt |-> "none",
     transport |-> NoTransport,
     auth |-> None,
     exchange |-> FALSE,
     exchangeFromEmail |-> None,
     defaultProvider |-> "smtp",
     apiKey |-> ApiKey,
     senderName |-> SenderName,
     senderAddress |-> ""]

(***************************************************************************)
(* Inputs of the configuration                                             *)
(***************************************************************************)

Ports == {0, 25, 465, 587}
BoolRaw == {"yes", "0", "maybe"}
Providers == {"smtp", "ews"}

OptOf(S) == {None} \cup {Some(x) : x \in S}

EnvInputs ==
    [SMTP_URL : OptOf({"smtp://relay:587"}),
     SMTP_PORT : OptOf(Ports),
     SMTP_SECURE : OptOf(BoolRaw),
     SMTP_REQUIRE_TLS : OptOf(BoolRaw),
     MAIL_PROVIDER : OptOf(Providers),
     EXCHANGE_URL : OptOf({"https://ex/EWS"}),
     EXCHANGE_USERNAME : OptOf({"user"}),
     EXCHANGE_PASSWORD : OptOf({"pw"}),
     EXCHANGE_FROM_EMAIL : OptOf({"from@ex.dz"}),
     SMTP_USER : {None},
     GMAIL_USER : {None},
     SMTP_PASSWORD : {None},
     GMAIL_APP_PASSWORD : {None},
     MAIL_FROM_ADDRESS : {Some("noreply@mail.dz")},
     MAIL_FROM_NAME : {None}]

\* environments of the credentials and sender resolution: transport and
\* Exchange settings unset
CredEnvs ==
    [SMTP_URL : {None},
     SMTP_PORT : {None},
     SMTP_SECURE : {None},
     SMTP_REQUIRE_TLS : {None},
     MAIL_PROVIDER : {None},
     EXCHANGE_URL : {None},
     EXCHANGE_USERNAME : {None},
     EXCHANGE_PASSWORD : {None},
     EXCHANGE_FROM_EMAIL : {None},
     SMTP_USER : OptOf({"", "me@relay.dz", "relayuser"}),
     GMAIL_USER : OptOf({"g@gmail.com"}),
     SMTP_PASSWORD : OptOf({"pw1"}),
     GMAIL_APP_PASSWORD : OptOf({"pw2"}),
     MAIL_FROM_ADDRESS : OptOf({"noreply@mail.dz", "not-an-address"}),
     MAIL_FROM_NAME : OptOf({"Ops"})]

\* environments of the dispatch model: relay settings left to their
\* defaults; Exchange fully set, unset, or partially set
MainEnvs ==
    {e \in EnvInputs :
        /\ e.SMTP_URL = None /\ e.SMTP_PORT = None
        /\ e.SMTP_SECURE = None /\ e.SMTP_REQUIRE_TLS = None
        /\ IsSet(e.EXCHANGE_USERNAME) = IsSet(e.EXCHANGE_PASSWORD)
        /\ IsSet(e.EXCHANGE_FROM_EMAIL) = IsSet(e.EXCHANGE_PASSWORD)
        /\ IsSet(e.EXCHANGE_URL) \/ ~IsSet(e.EXCHANGE_USERNAME)}

(***************************************************************************)
(* Errors                                                                  *)
(***************************************************************************)

Err(name, message, cause) == [name |-> name, message |-> message, cause |-> cause]

startsWith(s, p) == Len(s) >= Len(p) /\ SubSeq(s, 1, Len(p)) = p

includes(s, sub) ==
    \E i \in 1..(Len(s) - Len(sub) + 1) : SubSeq(s, i, i + Len(sub) - 1) = sub

(***************************************************************************)
(* services/smtp-service.ts                                                *)
(***************************************************************************)

WrongGetTransporter(t) == t

\* getTransporter(): the handle is built only while `transporter` is null
getTransporter(t) == IF t = "null" THEN "handle" ELSE t

\* nodemailer.createTransport calls made by one getTransporter() call
createTransportCalls(t) == IF t = "null" THEN 1 ELSE 0

\* what transporter.sendMail can answer: a receipt or a transport error
SmtpOutcomes ==
    {[ok |-> TRUE, text |-> "<id-1@relay>"],
     [ok |-> FALSE, text |-> "connect ECONNREFUSED"],
     [ok |-> FALSE, text |-> "Invalid login"]}

\* sendEmailViaSmtp after its await: the receipt, or SMTPSendError with cause
sendEmailViaSmtp(outcome) ==
    IF outcome.ok
    THEN [kind |-> "return", value |-> Some([messageId |-> outcome.text]), error |-> None]
    ELSE [kind |-> "throw", value |-> None,
          error |-> Some(Err("SMTPSendError", "Failed to send email via SMTP",
                             Some(Err("Error", outcome.text, None))))]

\* verifySmtpTransporter after its await: nothing, or SMTPConfigError
verifySmtpTransporter(relayOk) ==
    IF relayOk THEN None
    ELSE Some(Err("SMTPConfigError", "Failed to verify SMTP transporter",
                  Some(Err("Error", "verify failed", None))))

(***************************************************************************)
(* services/ews-service.ts                                                 *)
(***************************************************************************)

DefaultFromName == "DjazairMed"

\* what SendAndSaveCopy can answer
EwsFailureTexts ==
    {"authentication failed", "Invalid credentials", "request timeout",
     "connect ETIMEDOUT", "getaddrinfo ENOTFOUND ex", "connect ECONNREFUSED",
     "Mailbox full", "Authentication rejected", "authentication timeout"}

EwsOutcomes ==
    {[ok |-> TRUE, text |-> ""]} \cup {[ok |-> FALSE, text |-> t] : t \in EwsFailureTexts}

\* position of the first occurrence of p in s, 0 when there is none
indexOf(s, p) ==
    LET hits == {i \in 1..(Len(s) - Len(p) + 1) : SubSeq(s, i, i + Len(p) - 1) = p}
    IN IF hits = {} THEN 0 ELSE CHOOSE i \in hits : \A j \in hits : i <= j

Whitespace == {" ", "\n", "\t"}

Doctype == "<!DOCTYPE html>"

\* the parser's tokenizer: the first token of a non-empty s, [t, x, len].
\* A style element is one token holding its raw text; a tag is a token; any
\* other character is a token of its own.
nextToken(s) ==
    LET c == SubSeq(s, 1, 1)
        gt == indexOf(s, ">")
        tag == SubSeq(s, 1, gt)
    IN IF startsWith(s, "<style>")
       THEN LET k == indexOf(s, "</style>") IN
            IF k = 0
            THEN [t |-> "style", x |-> SubSeq(s, 8, Len(s)), len |-> Len(s)]
            ELSE [t |-> "style", x |-> SubSeq(s, 8, k - 1), len |-> k + 7]
       ELSE IF c = "<" /\ gt > 0
       THEN [t |-> IF startsWith(tag, "<!") THEN "doctype"
                   ELSE IF tag \in {"<html>", "<head>", "<body>",
                                    "</html>", "</head>", "</body>"} THEN tag
                   ELSE IF startsWith(tag, "</") THEN "end"
                   ELSE "start",
             x |-> tag, len |-> gt]
       ELSE IF c \in Whitespace THEN [t |-> "ws", x |-> c, len |-> 1]
       ELSE [t |-> "text", x |-> c, len |-> 1]

\* the document before any token: no doctype, empty head and body
EmptyDocument ==
    [mode |-> "initial", doctype |-> "", head |-> "", firstStyle |-> None,
     between |-> "", body |-> ""]

StyleElement(css) == "<style>" \o css \o "</style>"

\* a style element appended to head
headStyle(d, css) ==
    [d EXCEPT !.head = d.head \o StyleElement(css),
              !.firstStyle = IF d.firstStyle = None THEN Some(css) ELSE d.firstStyle]

\* the tree construction of the HTML parser, one token in the insertion mode
\* d.mode; elements other than html, head, body and style are flow content
RECURSIVE insert(_, _)
insert(d, tok) ==
    LET t == tok.t
        in(mode) == [d EXCEPT !.mode = mode]
    IN
    IF t = "doctype"
    THEN IF d.mode = "initial"
         THEN [d EXCEPT !.doctype = Doctype, !.mode = "beforeHtml"]
         ELSE d
    ELSE IF d.mode = "initial" THEN
        IF t = "ws" THEN d ELSE insert(in("beforeHtml"), tok)
    ELSE IF d.mode = "beforeHtml" THEN
        IF t = "ws" THEN d
        ELSE IF t = "<html>" THEN in("beforeHead")
        ELSE IF t = "end" THEN d
        ELSE insert(in("beforeHead"), tok)
    ELSE IF d.mode = "beforeHead" THEN
        IF t \in {"ws", "<html>", "end"} THEN d
        ELSE IF t = "<head>" THEN in("inHead")
        ELSE insert(in("inHead"), tok)
    ELSE IF d.mode = "inHead" THEN
        IF t = "ws" THEN [d EXCEPT !.head = d.head \o tok.x]
        ELSE IF t \in {"<html>", "<head>", "end"} THEN d
        ELSE IF t = "style" THEN headStyle(d, tok.x)
        ELSE IF t = "</head>" THEN in("afterHead")
        ELSE insert(in("afterHead"), tok)
    ELSE IF d.mode = "afterHead" THEN
        IF t = "ws" THEN [d EXCEPT !.between = d.between \o tok.x]
        ELSE IF t \in {"<html>", "<head>", "end", "</head>"} THEN d
        ELSE IF t = "<body>" THEN in("inBody")
        ELSE IF t = "style" THEN headStyle(d, tok.x)
        ELSE insert(in("inBody"), tok)
    ELSE IF d.mode = "inBody" THEN
        IF t \in {"<html>", "<head>", "<body>", "</head>"} THEN d
        ELSE IF t = "</body>" THEN in("afterBody")
        ELSE IF t = "</html>" THEN in("afterAfterBody")
        ELSE IF t = "style" THEN [d EXCEPT !.body = d.body \o StyleElement(tok.x)]
        ELSE [d EXCEPT !.body = d.body \o tok.x]
    ELSE IF d.mode = "afterBody" THEN
        IF t = "ws" THEN [d EXCEPT !.body = d.body \o tok.x]
        ELSE IF t = "<html>" THEN d
        ELSE IF t = "</html>" THEN in("afterAfterBody")
        ELSE insert(in("inBody"), tok)
    ELSE
        IF t = "ws" THEN [d EXCEPT !.body = d.body \o tok.x]
        ELSE IF t = "<html>" THEN d
        ELSE insert(in("inBody"), tok)

RECURSIVE parse(_, _)
parse(d, s) ==
    IF s = "" THEN d
    ELSE LET tok == nextToken(s) IN
         parse(insert(d, tok), SubSeq(s, tok.len + 1, Len(s)))

\* cheerio.load(html): always a whole document
load(html) == parse(EmptyDocument, html)

\* $("head style").html(): the content of the first match, or null
headStyleHtml(d) == d.firstStyle

\* $("body").html()
bodyHtml(d) == d.body

\* $.html(): the whole document serialized
documentHtml(d) ==
    d.doctype \o "<html><head>" \o d.head \o "</head>" \o d.between
        \o "<body>" \o d.body \o "</body></html>"

\* sanitizeHtmlForEWS(html)
sanitizeHtmlForEWS(html) ==
    LET d == load(html)
        styles == IF Falsy(headStyleHtml(d)) THEN "" ELSE Val(headStyleHtml(d))
        bodyContent == IF bodyHtml(d) # "" THEN bodyHtml(d) ELSE documentHtml(d)
    IN IF styles # "" THEN "<style>" \o styles \o "</style>\n" \o bodyContent
       ELSE bodyContent

WrongEwsFrom(cfg, fromName) ==
    [name |-> IF Falsy(fromName) THEN DefaultFromName ELSE Val(fromName),
     address |-> cfg.senderAddress]

\* message.From: new EmailAddress(fromName || "DjazairMed", exchangeFromEmail)
ewsFrom(cfg, fromName) ==
    [name |-> IF Falsy(fromName) THEN DefaultFromName ELSE Val(fromName),
     address |-> Val(cfg.exchangeFromEmail)]

WrongEwsBodyType(payload) ==
    IF ~Falsy(payload.text) THEN "Text"
    ELSE IF ~Falsy(payload.html) THEN "HTML"
    ELSE "none"

\* the branch of the body selection: html first, else text, else the throw
ewsBodyType(payload) ==
    IF ~Falsy(payload.html) THEN "HTML"
    ELSE IF ~Falsy(payload.text) THEN "Text"
    ELSE "none"

\* message.Body of the selected type: the sanitized html, or the text
ewsBody(payload, bodyType) ==
    IF bodyType = "HTML" THEN sanitizeHtmlForEWS(Val(payload.html))
    ELSE Val(payload.text)

\* the synchronous part of sendEmailViaEWS, up to the call of SendAndSaveCopy:
\* [error, message]; error set means the adapter's promise is rejected
ewsPrepare(cfg, payload, serviceOk) ==
    IF ~cfg.exchange
    THEN [error |-> Some(Err("EWSConfigError", "EXCHANGE_URL is not set", None)),
          message |-> None]
    ELSE IF ~serviceOk
    THEN [error |-> Some(Err("EWSConfigError", "Failed to create Exchange service", None)),
          message |-> None]
    ELSE IF ewsBodyType(payload) # "none"
    THEN [error |-> None,
          message |-> Some([fromName |-> ewsFrom(cfg, payload.fromName).name,
                            fromAddress |-> ewsFrom(cfg, payload.fromName).address,
                            to |-> payload.to, subject |-> payload.subject,
                            bodyType |-> ewsBodyType(payload),
                            body |-> ewsBody(payload, ewsBodyType(payload))])]
    ELSE [error |-> Some(Err("EWSSendError", "Failed to create email message",
                             Some(Err("EWSSendError",
                                      "Email must have either text or html content",
                                      None)))),
          message |-> None]

WrongEwsClassify(text) ==
    LET cause == Some(Err("Error", text, None)) IN
    IF includes(text, "authentication") \/ includes(text, "credentials")
    THEN Err("EWSConnectionError", "Authentication failed", cause)
    ELSE IF includes(text, "timeout") \/ includes(text, "ETIMEDOUT")
    THEN Err("EWSConnectionError", "Connection timeout", cause)
    ELSE IF includes(text, "ENOTFOUND")
    THEN Err("EWSConnectionError", "Cannot reach Exchange server", cause)
    ELSE Err("EWSSendError", "Failed to send email", cause)

\* the catch around SendAndSaveCopy: classification by message text
ewsClassify(text) ==
    LET cause == Some(Err("Error", text, None)) IN
    IF includes(text, "authentication") \/ includes(text, "credentials")
    THEN Err("EWSConnectionError", "Authentication failed", cause)
    ELSE IF includes(text, "timeout") \/ includes(text, "ETIMEDOUT")
    THEN Err("EWSConnectionError", "Connection timeout", cause)
    ELSE IF includes(text, "ENOTFOUND") \/ includes(text, "ECONNREFUSED")
    THEN Err("EWSConnectionError", "Cannot reach Exchange server", cause)
    ELSE Err("EWSSendError", "Failed to send email", cause)

\* sendEmailViaEWS after its await: nothing (void), or the classified error
sendEmailViaEWS(outcome) ==
    IF outcome.ok
    THEN [kind |-> "return", value |-> None, error |-> None]
    ELSE [kind |-> "throw", value |-> None, error |-> Some(ewsClassify(outcome.text))]

(***************************************************************************)
(* services/mail.ts                                                        *)
(***************************************************************************)

DEFAULT_SUBJECT_PREFIX == "[Djazairmed]"

\* prefixedSubject of sendMail
WrongPrefixSubject(subject) == DEFAULT_SUBJECT_PREFIX \o " " \o subject

PrefixSubject(subject) ==
    IF startsWith(subject, DEFAULT_SUBJECT_PREFIX) THEN subject
    ELSE DEFAULT_SUBJECT_PREFIX \o " " \o subject

Pending == [kind |-> "pending", value |-> None, error |-> None]
Throw(e) == [kind |-> "throw", value |-> None, error |-> Some(e)]

\* selectedProvider = provider ?? config.mail.defaultProvider
WrongSelectProvider(provider, defaultProvider) ==
    IF defaultProvider = "ews" THEN defaultProvider ELSE Val(Coalesce(provider, Some(defaultProvider)))

SelectProvider(provider, defaultProvider) ==
    Val(Coalesce(provider, Some(defaultProvider)))

\* the catch blocks of sendMail: the adapter's error wrapped, cause kept;
\* on success sendMail resolves with no value
WrongSendMailSettle(adapterResult, via) ==
    IF adapterResult.kind = "throw"
    THEN Throw(Err("MailSendError", "Failed to send email via " \o via, None))
    ELSE [kind |-> "return", value |-> None, error |-> None]

sendMailSettle(adapterResult, via) ==
    IF adapterResult.kind = "throw"
    THEN Throw(Err("MailSendError", "Failed to send email via " \o via,
                   adapterResult.error))
    ELSE [kind |-> "return", value |-> None, error |-> None]

\* the guard of the Exchange branch: config.mail.exchange is set
WrongExchangeConfigured(cfg) == TRUE

ExchangeConfigured(cfg) == cfg.exchange

WrongInvocations(sel) ==
    [smtp |-> IF sel \in {"smtp", "ews"} THEN 1 ELSE 0,
     ews |-> IF sel = "ews" THEN 1 ELSE 0]

\* the adapter calls of sendMail's if / else-if chain on the selected provider
Invocations(sel) ==
    [smtp |-> IF sel = "smtp" THEN 1 ELSE 0,
     ews |-> IF sel = "ews" THEN 1 ELSE 0]

\* sendMail up to its first await. serviceOk: whether the construction of the
\* Exchange service object succeeds.
sendMailStart(cfg, req, serviceOk) ==
    LET base == [pc |-> "rejected", sendMailCalls |-> 1, selectedProvider |-> None,
                 smtpCalls |-> 0, ewsCalls |-> 0, payload |-> None,
                 message |-> None, adapterResult |-> Pending, result |-> Pending]
    IN
    IF Falsy(req.html) /\ Falsy(req.text)
    THEN [base EXCEPT !.result =
              Throw(Err("MailSendError", "Missing email content (html/text)", None))]
    ELSE
    LET sel == SelectProvider(req.provider, cfg.defaultProvider)
        chosen == [base EXCEPT !.selectedProvider = Some(sel)]
    IN
    IF sel = "smtp"
    THEN [chosen EXCEPT !.pc = "await_smtp", !.smtpCalls = Invocations(sel).smtp,
                        !.ewsCalls = Invocations(sel).ews,
                        !.payload = Some([to |-> req.to, subject |-> req.subject,
                                          text |-> req.text, html |-> req.html,
                                          fromName |-> None])]
    ELSE IF sel = "ews"
    THEN IF ~ExchangeConfigured(cfg)
         THEN [chosen EXCEPT !.result =
                  Throw(Err("MailSendError", "Exchange configuration is not set", None))]
         ELSE
         LET payload == [to |-> req.to, subject |-> PrefixSubject(req.subject),
                         text |-> IF Falsy(req.text) THEN None ELSE req.text,
                         html |-> IF Falsy(req.html) THEN None ELSE req.html,
                         fromName |-> Some(cfg.senderName)]
             prep == ewsPrepare(cfg, payload, serviceOk)
             invoked == [chosen EXCEPT !.ewsCalls = Invocations(sel).ews,
                                       !.smtpCalls = Invocations(sel).smtp,
                                       !.payload = Some(payload)]
         IN IF IsSet(prep.error)
            THEN [invoked EXCEPT !.adapterResult = Throw(Val(prep.error)),
                                 !.result = sendMailSettle(Throw(Val(prep.error)),
                                                           "Exchange")]
            ELSE [invoked EXCEPT !.pc = "await_ews", !.message = prep.message]
    ELSE [chosen EXCEPT !.result =
             Throw(Err("MailSendError", "Unsupported provider", None))]

\* verifyMailTransporter after the relay verification has settled: the error
\* it throws, if any
WrongVerifyMailTransporter(cfg, relayOk) ==
    LET errors == verifySmtpTransporter(relayOk) IN
    IF IsSet(errors) THEN errors
    ELSE IF cfg.defaultProvider = "ews" /\ ~cfg.exchange
    THEN Some(Err("Error", "Default provider is EWS but Exchange configuration is missing",
                  None))
    ELSE None

verifyMailTransporter(cfg, relayOk) ==
    LET errors == verifySmtpTransporter(relayOk) IN
    IF cfg.defaultProvider = "smtp" /\ IsSet(errors) /\ Val(errors).name = "SMTPConfigError"
    THEN errors
    ELSE IF cfg.defaultProvider = "ews" /\ ~cfg.exchange
    THEN Some(Err("Error", "Default provider is EWS but Exchange configuration is missing",
                  None))
    ELSE None

(***************************************************************************)
(* routes/email.ts                                                         *)
(***************************************************************************)

SubjectMin == 2
SubjectMax == 120
TextMin == 2
TextMax == 1000
HtmlMin == 2
HtmlMax == 5000

\* mailRequestSchema, with its refinement
SchemaValid(b) ==
    /\ IsEmail(b.to)
    /\ Len(b.subject) >= SubjectMin /\ Len(b.subject) <= SubjectMax
    /\ IsSet(b.text) => (Len(Val(b.text)) >= TextMin /\ Len(Val(b.text)) <= TextMax)
    /\ IsSet(b.html) => (Len(Val(b.html)) >= HtmlMin /\ Len(Val(b.html)) <= HtmlMax)
    /\ ~Falsy(b.text) \/ ~Falsy(b.html)

\* c.req.valid("json"): the object schema keeps only the keys it declares
SchemaOutput(b) == [b EXCEPT !.provider = None]

RequestId == "req-1"

NoResponse == [status |-> 0, message |-> "", requestId |-> None]
Response(status, message, requestId) ==
    [status |-> status, message |-> message, requestId |-> requestId]

\* the background task of the route after `await sendMail(payload)`:
\* what it logs, and whether an exception leaves the task
WrongRouteSettle(result) ==
    IF result.kind = "return"
    THEN IF IsSet(result.value)
         THEN [level |-> "info", msg |-> "Email sent successfully", unhandled |-> FALSE]
         ELSE [level |-> "none", msg |-> "", unhandled |-> TRUE]
    ELSE IF Val(result.error).name = "MailSendError"
    THEN [level |-> "error", msg |-> "Failed to send email", unhandled |-> FALSE]
    ELSE [level |-> "none", msg |-> "", unhandled |-> TRUE]

routeSettle(result) ==
    IF result.kind = "return"
    THEN IF IsSet(result.value)
         THEN [level |-> "info", msg |-> "Email sent successfully", unhandled |-> FALSE]
         \* info.messageId of undefined throws inside the try block
         ELSE [level |-> "error", msg |-> "Unexpected error while sending email",
               unhandled |-> FALSE]
    ELSE IF Val(result.error).name = "MailSendError"
    THEN [level |-> "error", msg |-> "Failed to send email", unhandled |-> FALSE]
    ELSE [level |-> "error", msg |-> "Unexpected error while sending email",
          unhandled |-> FALSE]

NoLog == [level |-> "none", msg |-> "", unhandled |-> FALSE]

(***************************************************************************)
(* Inputs of the dispatch model                                            *)
(***************************************************************************)

Tos == {"a@b.com", "nope"}
MainSubjects == {"Hi", "[Djazairmed] Hi", "H"}
Texts == OptOf({"", "hey"})
Htmls == OptOf({"", "<p>hi</p>"})
Keys == OptOf({"secret", "wrong"})

Bodies ==
    [to : Tos, subject : MainSubjects, text : Texts, html : Htmls,
     provider : OptOf(Providers)]

IdleBody == [to |-> "", subject |-> "", text |-> None, html |-> None, provider |-> None]

IdleCall ==
    [pc |-> "idle", origin |-> "none", body |-> IdleBody, key |-> None,
     req |-> IdleBody, http |-> NoResponse, sendMailCalls |-> 0,
     selectedProvider |-> None, smtpCalls |-> 0, ewsCalls |-> 0,
     saveCopyCalls |-> 0, payload |-> None, message |-> None,
     adapterResult |-> Pending, result |-> Pending, log |-> NoLog]

\* a call record from the part sendMailStart fills in
Started(origin, body, key, req, http, st) ==
    [pc |-> st.pc, origin |-> origin, body |-> body, key |-> key, req |-> req,
     http |-> http, sendMailCalls |-> st.sendMailCalls,
     selectedProvider |-> st.selectedProvider, smtpCalls |-> st.smtpCalls,
     ewsCalls |-> st.ewsCalls,
     saveCopyCalls |-> IF st.pc = "await_ews" THEN 1 ELSE 0,
     payload |-> st.payload, message |-> st.message,
     adapterResult |-> st.adapterResult, result |-> st.result, log |-> NoLog]

IdleVerify == [relay |-> "unknown", thrown |-> None, exitCode |-> None]
\* no health check made yet
IdleHealth == [pc |-> "idle", reachable |-> FALSE, status |-> 0, result |-> FALSE]

MaxTasks == 3

\* no relay adapter call started
IdleTask == [kind |-> "none", pc |-> "idle", handle |-> "null", ok |-> FALSE]

IdleTasks == [i \in 1..MaxTasks |-> IdleTask]

IdleSan == [h |-> "", once |-> "", twice |-> "", applied |-> FALSE]

IdleSubj == [s |-> "", once |-> "", twice |-> "", applied |-> FALSE]

(***************************************************************************)
(* SpecEnv: configuration resolution over all environments                 *)
(***************************************************************************)

InitEnv ==
    /\ env \in EnvInputs
    /\ config = UnloadedConfig
    /\ phase = "load"
    /\ transporter = "null"
    /\ verify = IdleVerify
    /\ call = IdleCall
    /\ subj = IdleSubj
    /\ health = IdleHealth
    /\ created = 0
    /\ tasks = IdleTasks
    /\ san = IdleSan

\* module load of config/env.ts
LoadConfig ==
    /\ phase = "load"
    /\ config.status = "unloaded"
    /\ config' = ResolveConfig(env)
    /\ phase' = IF config'.status = "loaded" THEN "boot" ELSE "exited"
    /\ UNCHANGED <<env, transporter, verify, call, subj, health, created, tasks, san>>

NextEnv == LoadConfig

SpecEnv == InitEnv /\ [][NextEnv]_vars

(***************************************************************************)
(* Spec: the running service. The configuration is resolved at module load *)
(* (Init); then startup verification, requests and sendMail calls.         *)
(***************************************************************************)

Init ==
    /\ env \in MainEnvs
    /\ config = ResolveConfig(env)
    /\ phase = "boot"
    /\ transporter = "null"
    /\ verify = IdleVerify
    /\ call = IdleCall
    /\ subj = IdleSubj
    /\ health = IdleHealth
    /\ created = 0
    /\ tasks = IdleTasks
    /\ san = IdleSan

CallFree == call.pc = "idle"

WrongKeyAccepted(cfg, key) == IsSet(key)

\* the x-api-key header equals config.mail.apiKey
KeyAccepted(cfg, key) == key = Some(cfg.apiKey)

\* startServer() up to the await inside verifySmtpTransporter
StartServer ==
    /\ phase = "boot"
    /\ CallFree
    /\ phase' = "verifying"
    /\ transporter' = getTransporter(transporter)
    /\ created' = created + createTransportCalls(transporter)
    /\ UNCHANGED <<env, config, verify, call, subj, health, tasks, san>>

WrongStartServerSettles(thrown) ==
    [phase |-> "serving", exitCode |-> IF IsSet(thrown) THEN Some(1) ELSE None]

\* startServer after `await verifyMailTransporter()`: serve(...), or the
\* rejection that index.ts catches with process.exit(1)
startServerSettles(thrown) ==
    IF IsSet(thrown) THEN [phase |-> "exited", exitCode |-> Some(1)]
    ELSE [phase |-> "serving", exitCode |-> None]

\* the relay verification settles; verifyMailTransporter finishes; startServer
\* serves, or index.ts logs the failure and exits with code 1
VerifyCompletes ==
    /\ phase = "verifying"
    /\ \E relayOk \in BOOLEAN :
        LET thrown == verifyMailTransporter(config, relayOk)
            after == startServerSettles(thrown)
        IN /\ verify' = [relay |-> IF relayOk THEN "ok" ELSE "failed",
                         thrown |-> thrown, exitCode |-> after.exitCode]
           /\ phase' = after.phase
    /\ UNCHANGED <<env, config, transporter, call, subj, health, created, tasks, san>>

\* POST /send-email: validation, API key, then the background task runs
\* sendMail up to its first await and the handler answers
PostSendEmail ==
    /\ phase = "serving"
    /\ CallFree
    /\ \E body \in Bodies, key \in Keys, serviceOk \in BOOLEAN :
        IF ~SchemaValid(body)
        THEN /\ call' = [IdleCall EXCEPT !.pc = "done", !.origin = "route",
                                         !.body = body, !.key = key,
                                         !.http = Response(400, "Invalid request", None)]
             /\ UNCHANGED <<transporter, created>>
        ELSE IF ~KeyAccepted(config, key)
        THEN /\ call' = [IdleCall EXCEPT !.pc = "done", !.origin = "route",
                                         !.body = body, !.key = key,
                                         !.http = Response(401, "Unauthorized", None)]
             /\ UNCHANGED <<transporter, created>>
        ELSE LET req == SchemaOutput(body)
                 st == sendMailStart(config, req, serviceOk)
             IN /\ call' = Started("route", body, key, req,
                                   Response(202, "Email accepted for delivery",
                                            Some(RequestId)), st)
                /\ transporter' = IF st.smtpCalls > 0 THEN getTransporter(transporter)
                                  ELSE transporter
                /\ created' = IF st.smtpCalls > 0
                               THEN created + createTransportCalls(transporter)
                               ELSE created
    /\ UNCHANGED <<env, config, phase, verify, subj, health, tasks, san>>

\* sendMail called from a program (the test scripts), up to its first await
CallSendMail ==
    /\ phase \in {"boot", "verifying", "serving"}
    /\ CallFree
    /\ \E req \in Bodies, serviceOk \in BOOLEAN :
        LET st == sendMailStart(config, req, serviceOk) IN
        /\ call' = Started("direct", req, None, req, NoResponse, st)
        /\ transporter' = IF st.smtpCalls > 0 THEN getTransporter(transporter)
                          ELSE transporter
        /\ created' = IF st.smtpCalls > 0
                       THEN created + createTransportCalls(transporter)
                       ELSE created
    /\ UNCHANGED <<env, config, phase, verify, subj, health, tasks, san>>

\* what follows the settling of sendMail's promise in its caller
Settled(c, adapterResult, result) ==
    [c EXCEPT !.pc = "done", !.adapterResult = adapterResult, !.result = result,
              !.log = IF c.origin = "route" THEN routeSettle(result) ELSE NoLog]

\* transporter.sendMail settles: sendEmailViaSmtp and sendMail finish
SmtpSendCompletes ==
    /\ phase # "exited"
    /\ call.pc = "await_smtp"
    /\ \E outcome \in SmtpOutcomes :
        LET ar == sendEmailViaSmtp(outcome) IN
        call' = Settled(call, ar, sendMailSettle(ar, "SMTP"))
    /\ UNCHANGED <<env, config, phase, transporter, verify, subj, health, created, tasks, san>>

\* SendAndSaveCopy settles: sendEmailViaEWS and sendMail finish
EwsSendCompletes ==
    /\ phase # "exited"
    /\ call.pc = "await_ews"
    /\ \E outcome \in EwsOutcomes :
        LET ar == sendEmailViaEWS(outcome) IN
        call' = Settled(call, ar, sendMailSettle(ar, "Exchange"))
    /\ UNCHANGED <<env, config, phase, transporter, verify, subj, health, created, tasks, san>>

\* a sendMail that threw before any await: its caller sees the rejection
RejectionSettles ==
    /\ phase # "exited"
    /\ call.pc = "rejected"
    /\ call' = Settled(call, call.adapterResult, call.result)
    /\ UNCHANGED <<env, config, phase, transporter, verify, subj, health, created, tasks, san>>

\* the caller is done with the settled call: the background task of the route
\* has ended, or the calling program has moved on
ReleaseCall ==
    /\ phase # "exited"
    /\ call.pc = "done"
    /\ call' = IdleCall
    /\ UNCHANGED <<env, config, phase, transporter, verify, subj, health, created, tasks, san>>

\* app.ts: what the application answers to a GET
AppGet(path) == IF path = "/healthz" THEN 200 ELSE 404

\* the path the client's healthCheck() fetches under its base URL
HealthCheckPath == "/health"

\* Response.ok
ResponseOk(status) == status >= 200 /\ status <= 299

\* EmailServiceClient.healthCheck(): fetch rejects when nothing listens
healthCheck(reachable) ==
    IF reachable
    THEN LET status == AppGet(HealthCheckPath) IN
         [pc |-> "done", reachable |-> TRUE, status |-> status,
          result |-> ResponseOk(status)]
    ELSE [pc |-> "done", reachable |-> FALSE, status |-> 0, result |-> FALSE]

\* a client program calls healthCheck() against the service
ClientHealthCheck ==
    /\ health.pc = "idle"
    /\ health' = healthCheck(phase = "serving")
    /\ UNCHANGED <<env, config, phase, transporter, verify, call, subj, created,
                   tasks, san>>

\* the client program drops the answer
ClientForgets ==
    /\ health.pc = "done"
    /\ health' = IdleHealth
    /\ UNCHANGED <<env, config, phase, transporter, verify, call, subj, created,
                   tasks, san>>

Next ==
    \/ ClientHealthCheck
    \/ ClientForgets
    \/ StartServer
    \/ VerifyCompletes
    \/ PostSendEmail
    \/ CallSendMail
    \/ SmtpSendCompletes
    \/ EwsSendCompletes
    \/ RejectionSettles
    \/ ReleaseCall

Spec == Init /\ [][Next]_vars

(***************************************************************************)
(* SpecSubject: the subject prefixing of the Exchange path, over subjects  *)
(* assembled from pieces.                                                  *)
(***************************************************************************)

MaxParts == 3

Pieces == {DEFAULT_SUBJECT_PREFIX, " ", "Hello", "[", "[Djazairmed", "[djazairmed]"}

RECURSIVE Assemble(_)
Assemble(n) ==
    IF n = 0 THEN {""}
    ELSE Assemble(n - 1) \cup {s \o p : s \in Assemble(n - 1), p \in Pieces}

InitSubject ==
    /\ env \in {e \in MainEnvs : ExchangePresent(e) /\ e.MAIL_PROVIDER = None}
    /\ config = ResolveConfig(env)
    /\ phase = "boot"
    /\ transporter = "null"
    /\ verify = IdleVerify
    /\ call = IdleCall
    /\ subj \in {[s |-> s, once |-> "", twice |-> "", applied |-> FALSE] :
                     s \in Assemble(MaxParts)}
    /\ health = IdleHealth
    /\ created = 0
    /\ tasks = IdleTasks
    /\ san = IdleSan

\* the prefixing applied to a subject, and again to its own output
ApplyPrefix ==
    /\ ~subj.applied
    /\ LET once == PrefixSubject(subj.s) IN
       subj' = [subj EXCEPT !.once = once, !.twice = PrefixSubject(once),
                            !.applied = TRUE]
    /\ UNCHANGED <<env, config, phase, transporter, verify, call, health, created, tasks, san>>

NextSubject == ApplyPrefix

SpecSubject == InitSubject /\ [][NextSubject]_vars

(***************************************************************************)
(* SpecCreds: configuration resolution over the relay credentials and the  *)
(* sender settings.                                                        *)
(***************************************************************************)

InitCreds ==
    /\ env \in CredEnvs
    /\ config = UnloadedConfig
    /\ phase = "load"
    /\ transporter = "null"
    /\ verify = IdleVerify
    /\ call = IdleCall
    /\ subj = IdleSubj
    /\ health = IdleHealth
    /\ created = 0
    /\ tasks = IdleTasks
    /\ san = IdleSan

SpecCreds == InitCreds /\ [][NextEnv]_vars

(***************************************************************************)
(* SpecRelay: calls of the relay adapter's two operations that overlap at  *)
(* their awaits. Each runs synchronously up to `await getTransporter()...`.*)
(***************************************************************************)

InitRelay ==
    /\ env \in {e \in MainEnvs : ~ExchangePresent(e) /\ e.MAIL_PROVIDER = None}
    /\ config = ResolveConfig(env)
    /\ phase = "boot"
    /\ transporter = "null"
    /\ verify = IdleVerify
    /\ call = IdleCall
    /\ subj = IdleSubj
    /\ health = IdleHealth
    /\ created = 0
    /\ tasks = IdleTasks
    /\ san = IdleSan

RelayKinds == {"verify", "send"}

\* verifySmtpTransporter() or sendEmailViaSmtp() is called and runs up to its
\* await: getTransporter() has returned the handle the call then uses
RelayCallStarts(i) ==
    /\ tasks[i].pc = "idle"
    /\ \E kind \in RelayKinds :
        tasks' = [tasks EXCEPT ![i] = [kind |-> kind, pc |-> "awaiting",
                                       handle |-> getTransporter(transporter),
                                       ok |-> FALSE]]
    /\ transporter' = getTransporter(transporter)
    /\ created' = created + createTransportCalls(transporter)
    /\ UNCHANGED <<env, config, phase, verify, call, subj, health, san>>

\* the awaited verify() or sendMail() settles, with success or with failure
\* (the adapter then throws SMTPConfigError or SMTPSendError)
RelayCallSettles(i) ==
    /\ tasks[i].pc = "awaiting"
    /\ \E ok \in BOOLEAN :
        tasks' = [tasks EXCEPT ![i].pc = "done", ![i].ok = ok]
    /\ UNCHANGED <<env, config, phase, transporter, verify, call, subj, health,
                   created, san>>

\* the caller has taken the outcome; the slot is free for another call
RelayCallReturns(i) ==
    /\ tasks[i].pc = "done"
    /\ tasks' = [tasks EXCEPT ![i] = IdleTask]
    /\ UNCHANGED <<env, config, phase, transporter, verify, call, subj, health,
                   created, san>>

NextRelay ==
    \E i \in 1..MaxTasks :
        \/ RelayCallStarts(i)
        \/ RelayCallSettles(i)
        \/ RelayCallReturns(i)

SpecRelay == InitRelay /\ [][NextRelay]_vars

(***************************************************************************)
(* SpecEws: the Exchange adapter called on its own, with payloads sendMail *)
(* would not build (no content, no fromName).                              *)
(***************************************************************************)

InitEws ==
    /\ env \in MainEnvs
    /\ config = ResolveConfig(env)
    /\ phase = "boot"
    /\ transporter = "null"
    /\ verify = IdleVerify
    /\ call = IdleCall
    /\ subj = IdleSubj
    /\ health = IdleHealth
    /\ created = 0
    /\ tasks = IdleTasks
    /\ san = IdleSan

StyledDocument ==
    "<html><head><style>.a{color:red}</style></head><body><p>hi</p></body></html>"

EwsPayloads ==
    [to : {"a@b.com"}, subject : {"Hi", "[Djazairmed] Hi"}, text : Texts,
     html : Htmls \cup {Some(StyledDocument)}, fromName : OptOf({"", "Ops"})]

\* sendEmailViaEWS(payload) up to its await, or to the throw before it
CallSendEmailViaEWS ==
    /\ CallFree
    /\ \E payload \in EwsPayloads, serviceOk \in BOOLEAN :
        LET prep == ewsPrepare(config, payload, serviceOk) IN
        call' = [IdleCall EXCEPT
                    !.origin = "adapter",
                    !.ewsCalls = 1,
                    !.payload = Some(payload),
                    !.message = prep.message,
                    !.pc = IF IsSet(prep.error) THEN "done" ELSE "await_ews",
                    !.saveCopyCalls = IF IsSet(prep.error) THEN 0 ELSE 1,
                    !.adapterResult = IF IsSet(prep.error) THEN Throw(Val(prep.error))
                                      ELSE Pending]
    /\ UNCHANGED <<env, config, phase, transporter, verify, subj, health, created,
                   tasks, san>>

\* SendAndSaveCopy settles and sendEmailViaEWS returns or throws
EwsAdapterSettles ==
    /\ call.origin = "adapter"
    /\ call.pc = "await_ews"
    /\ \E outcome \in EwsOutcomes :
        call' = [call EXCEPT !.pc = "done", !.adapterResult = sendEmailViaEWS(outcome)]
    /\ UNCHANGED <<env, config, phase, transporter, verify, subj, health, created,
                   tasks, san>>

NextEws ==
    \/ CallSendEmailViaEWS
    \/ EwsAdapterSettles
    \/ ReleaseCall

SpecEws == InitEws /\ [][NextEws]_vars

(***************************************************************************)
(* SpecHtml: the sanitizer of the Exchange path applied to an HTML input   *)
(* and to its own output. Inputs are whole documents and fragments.        *)
(***************************************************************************)

MaxStyles == 2

StyleBlocks == {StyleElement(".a{color:red}"), StyleElement(".b{}")}

\* head content: up to n style elements in a row
RECURSIVE HeadContents(_)
HeadContents(n) ==
    IF n = 0 THEN {""}
    ELSE HeadContents(n - 1) \cup {h \o b : h \in HeadContents(n - 1), b \in StyleBlocks}

BodyContents == {"", "<p>hi</p>", "hi", "\n<p>hi</p>\n"}

FullDocuments ==
    {dt \o "<html><head>" \o h \o "</head><body>" \o b \o "</body></html>" :
        dt \in {"", Doctype}, h \in HeadContents(MaxStyles), b \in BodyContents}

Fragments == {h \o b : h \in HeadContents(MaxStyles), b \in BodyContents}

HtmlInputs == FullDocuments \cup Fragments

InitHtml ==
    /\ env \in {e \in MainEnvs : ExchangePresent(e) /\ e.MAIL_PROVIDER = None}
    /\ config = ResolveConfig(env)
    /\ phase = "boot"
    /\ transporter = "null"
    /\ verify = IdleVerify
    /\ call = IdleCall
    /\ subj = IdleSubj
    /\ health = IdleHealth
    /\ created = 0
    /\ tasks = IdleTasks
    /\ san \in {[h |-> h, once |-> "", twice |-> "", applied |-> FALSE] :
                    h \in HtmlInputs}

\* the sanitizer applied to an input, and again to its own output
ApplySanitizer ==
    /\ ~san.applied
    /\ LET once == sanitizeHtmlForEWS(san.h) IN
       san' = [san EXCEPT !.once = once, !.twice = sanitizeHtmlForEWS(once),
                          !.applied = TRUE]
    /\ UNCHANGED <<env, config, phase, transporter, verify, call, subj, health,
                   created, tasks>>

NextHtml == ApplySanitizer

SpecHtml == InitHtml /\ [][NextHtml]_vars

(***************************************************************************)
(* Properties                                                              *)
(***************************************************************************)

Settling == call.pc \in {"rejected", "done"}

\* C1: a sendMail call whose request has neither text nor html (each absent
\* or empty) fails with the content-missing MailSendError, and neither the
\* relay adapter nor the Exchange adapter is invoked during that call,
\* whatever the requested or the default provider.
C1_ContentMissingRejected ==
    (/\ call.sendMailCalls = 1
     /\ call.req.text \in {None, Some("")}
     /\ call.req.html \in {None, Some("")}) =>
        /\ Settling
        /\ call.result.kind = "throw"
        /\ Val(call.result.error).name = "MailSendError"
        /\ Val(call.result.error).message = "Missing email content (html/text)"
        /\ call.smtpCalls = 0
        /\ call.ewsCalls = 0
        /\ call.saveCopyCalls = 0

C1_Witness ==
    /\ call.pc = "done"
    /\ call.sendMailCalls = 1
    /\ call.req.text = Some("")
    /\ call.req.html = None
    /\ call.req.provider = Some("ews")
    /\ config.defaultProvider = "smtp"
    /\ call.result.kind = "throw"

ContentPresent(r) == r.text \notin {None, Some("")} \/ r.html \notin {None, Some("")}

\* C2: the provider sendMail resolves is the requested one whenever the
\* request carries one, whatever the default, and the configured default
\* when the request carries none; the adapter of the resolved provider is
\* the one that can be invoked.
C2_ProviderResolution ==
    (call.sendMailCalls = 1 /\ ContentPresent(call.req)) =>
        /\ IsSet(call.selectedProvider)
        /\ call.req.provider = Some("smtp") => call.selectedProvider = Some("smtp")
        /\ call.req.provider = Some("ews") => call.selectedProvider = Some("ews")
        /\ call.req.provider = None =>
               call.selectedProvider = Some(config.defaultProvider)
        /\ call.selectedProvider = Some("smtp") => (call.smtpCalls = 1 /\ call.ewsCalls = 0)
        /\ call.selectedProvider = Some("ews") => call.smtpCalls = 0

C2_Witness ==
    /\ call.sendMailCalls = 1
    /\ call.req.provider = Some("smtp")
    /\ config.defaultProvider = "ews"
    /\ call.selectedProvider = Some("smtp")
    /\ call.smtpCalls = 1

ConfigurationErrorNames == {"ConfigurationError", "EWSConfigError", "SMTPConfigError"}

\* C3 as stated: with the resolved provider exchange and no Exchange
\* configuration, sendMail fails with a ConfigurationError (thrown or
\* attached as cause) and no adapter is invoked.
C3_FailsWithConfigurationError ==
    (call.selectedProvider = Some("ews") /\ ~config.exchange /\ Settling) =>
        /\ call.result.kind = "throw"
        /\ \/ Val(call.result.error).name \in ConfigurationErrorNames
           \/ /\ IsSet(Val(call.result.error).cause)
              /\ Val(Val(call.result.error).cause).name \in ConfigurationErrorNames
        /\ call.ewsCalls = 0
        /\ call.smtpCalls = 0

\* C3 (amended): with the resolved provider exchange and no Exchange
\* configuration, sendMail fails with a MailSendError whose message is
\* "Exchange configuration is not set" and which has no cause; the Exchange
\* adapter is not attempted and the relay adapter is not invoked.
C3_ExchangeConfigMissingRejected ==
    (call.selectedProvider = Some("ews") /\ ~config.exchange) =>
        /\ Settling
        /\ call.result.kind = "throw"
        /\ call.result.error =
               Some(Err("MailSendError", "Exchange configuration is not set", None))
        /\ call.ewsCalls = 0
        /\ call.saveCopyCalls = 0
        /\ call.smtpCalls = 0
        /\ call.adapterResult = Pending

C3_Witness ==
    /\ call.pc = "done"
    /\ call.selectedProvider = Some("ews")
    /\ ~config.exchange
    /\ config.defaultProvider = "smtp"
    /\ call.result.kind = "throw"
    /\ call.smtpCalls = 0

\* C4: every failure of sendMail reaches the caller as a MailSendError, and
\* whenever an adapter failed, sendMail fails and its MailSendError carries
\* the adapter's error as cause.
C4_SingleErrorTypeWithCause ==
    /\ call.result.kind = "throw" => Val(call.result.error).name = "MailSendError"
    /\ call.adapterResult.kind = "throw" =>
           /\ call.result.kind = "throw"
           /\ Val(call.result.error).name = "MailSendError"
           /\ Val(call.result.error).cause = call.adapterResult.error
           /\ Val(call.adapterResult.error).name \in
                  {"SMTPSendError", "EWSConfigError", "EWSConnectionError", "EWSSendError"}

C4_Witness ==
    /\ call.pc = "done"
    /\ call.adapterResult.kind = "throw"
    /\ Val(call.adapterResult.error).name = "EWSConnectionError"
    /\ call.result.kind = "throw"
    /\ Val(call.result.error).cause = call.adapterResult.error

\* C5: the subject prefixing of the Exchange path: a subject that does not
\* start with "[Djazairmed]" becomes "[Djazairmed] " followed by the subject,
\* one that starts with it is unchanged, and prefixing the output again
\* yields the same string.
C5_PrefixIdempotent ==
    subj.applied =>
        /\ ~startsWith(subj.s, "[Djazairmed]") => subj.once = "[Djazairmed] " \o subj.s
        /\ startsWith(subj.s, "[Djazairmed]") => subj.once = subj.s
        /\ startsWith(subj.once, "[Djazairmed]")
        /\ subj.twice = subj.once

C5_Witness ==
    /\ subj.applied
    /\ subj.s = "[Djazairmed Hello"
    /\ subj.once = "[Djazairmed] [Djazairmed Hello"
    /\ subj.twice = subj.once

\* C6: once startup verification has finished, it has failed (and the process
\* has exited instead of serving) exactly when the default provider is relay
\* and the relay verification failed, or the default provider is exchange
\* and the Exchange configuration is absent.
C6_StartupFailsIffDefaultUnusable ==
    phase \in {"serving", "exited"} =>
        /\ IsSet(verify.thrown) <=>
              \/ (config.defaultProvider = "smtp" /\ verify.relay = "failed")
              \/ (config.defaultProvider = "ews" /\ ~config.exchange)
        /\ (phase = "exited") <=> IsSet(verify.thrown)

C6_Witness ==
    /\ phase = "serving"
    /\ verify.relay = "failed"
    /\ config.defaultProvider = "ews"
    /\ config.exchange
    /\ verify.thrown = None

\* C7: in the resolved configuration an explicit MAIL_PROVIDER is the default
\* provider whether or not the Exchange configuration is present; without
\* one the default is exchange when the Exchange configuration is present
\* and relay when it is absent.
C7_DefaultProviderDerivation ==
    config.status = "loaded" =>
        /\ env.MAIL_PROVIDER = Some("smtp") => config.defaultProvider = "smtp"
        /\ env.MAIL_PROVIDER = Some("ews") => config.defaultProvider = "ews"
        /\ (env.MAIL_PROVIDER = None /\ config.exchange) => config.defaultProvider = "ews"
        /\ (env.MAIL_PROVIDER = None /\ ~config.exchange) => config.defaultProvider = "smtp"

C7_Witness ==
    /\ config.status = "loaded"
    /\ env.MAIL_PROVIDER = Some("smtp")
    /\ config.exchange
    /\ config.defaultProvider = "smtp"

ParsedSecure == optionalBoolean(env.SMTP_SECURE).value
ParsedRequireTLS == optionalBoolean(env.SMTP_REQUIRE_TLS).value

\* C8: for a host-based transport (no SMTP_URL): port is the given port, else
\* 465 if secure was given as true, else 587; secure is the given value,
\* else (port = 465); requireTLS is the given value, else (not secure). So
\* port 465 alone gives secure and no requireTLS, and no inputs give port
\* 587, not secure, requireTLS.
C8_HostTransportDefaulting ==
    (config.status = "loaded" /\ env.SMTP_URL = None) =>
        LET t == config.transport IN
        /\ t.type = "smtp"
        /\ IsSet(env.SMTP_PORT) => t.port = Val(env.SMTP_PORT)
        /\ (env.SMTP_PORT = None /\ ParsedSecure = Some(TRUE)) => t.port = 465
        /\ (env.SMTP_PORT = None /\ ParsedSecure # Some(TRUE)) => t.port = 587
        /\ IsSet(ParsedSecure) => t.secure = Val(ParsedSecure)
        /\ ParsedSecure = None => t.secure = (t.port = 465)
        /\ IsSet(ParsedRequireTLS) => t.requireTLS = ParsedRequireTLS
        /\ ParsedRequireTLS = None => t.requireTLS = Some(~t.secure)
        /\ (env.SMTP_PORT = Some(465) /\ ParsedSecure = None /\ ParsedRequireTLS = None) =>
               (t.secure /\ t.requireTLS = Some(FALSE))
        /\ (env.SMTP_PORT = None /\ ParsedSecure = None /\ ParsedRequireTLS = None) =>
               (t.port = 587 /\ ~t.secure /\ t.requireTLS = Some(TRUE))

C8_Witness ==
    /\ config.status = "loaded"
    /\ env.SMTP_URL = None
    /\ env.SMTP_PORT = None
    /\ env.SMTP_SECURE = Some("yes")
    /\ env.SMTP_REQUIRE_TLS = None
    /\ config.transport.port = 465
    /\ config.transport.secure
    /\ config.transport.requireTLS = Some(FALSE)

\* C9: with a relay-only configuration whose relay verified at startup, a
\* sendMail call with text and no provider goes to the relay adapter and, on
\* success, returns the relay's delivery receipt with its message identifier.
C9_RelayReceiptReturned ==
    (/\ ~config.exchange /\ config.defaultProvider = "smtp"
     /\ phase = "serving" /\ verify.relay = "ok"
     /\ call.pc = "done" /\ call.sendMailCalls = 1
     /\ call.req.text = Some("hey") /\ call.req.provider = None
     /\ call.adapterResult.kind = "return") =>
        /\ call.smtpCalls = 1
        /\ call.ewsCalls = 0
        /\ call.result.kind = "return"
        /\ IsSet(call.result.value)
        /\ call.result.value = call.adapterResult.value

AcceptedResponse == Response(202, "Email accepted for delivery", Some(RequestId))

C10_Answered ==
    (/\ call.origin = "route"
     /\ SchemaValid(call.body)
     /\ call.key = Some(config.apiKey)) =>
        /\ call.http = AcceptedResponse
        /\ call.sendMailCalls = 1
        /\ ~call.log.unhandled
        /\ (call.pc = "done" /\ call.result.kind = "throw") =>
               (call.log.level = "error" /\ call.log.msg = "Failed to send email")

C10_ResponseKept ==
    (/\ call.origin = "route"
     /\ call.pc \in {"await_smtp", "await_ews", "rejected"}
     /\ call' # call) =>
        (call'.origin = "route" /\ call'.pc = "done" /\ call'.http = call.http)

\* C10: a POST /send-email that passes validation and carries the API key is
\* answered 202 with message and requestId while the send is still
\* outstanding; the settling of the background sendMail, whatever its
\* outcome, leaves the response as it was, and a failure is logged and never
\* leaves the background task as an unhandled rejection.
C10_AcceptedBeforeSend == [](C10_Answered) /\ [][C10_ResponseKept]_vars

C10_Witness ==
    /\ call.origin = "route"
    /\ call.http = AcceptedResponse
    /\ call.pc = "await_smtp"
    /\ call.result.kind = "pending"

\* C11: a POST /send-email whose body names a provider is dispatched through
\* that provider: the provider accepted at the HTTP boundary is the one
\* sendMail receives and resolves, whatever the default provider is.
C11_BodyProviderDispatched ==
    (/\ call.origin = "route"
     /\ call.http.status = 202
     /\ IsSet(call.body.provider)) =>
        /\ call.req.provider = call.body.provider
        /\ call.selectedProvider = call.body.provider

KeyRejected(c) == c.origin = "route" /\ c.key # Some(config.apiKey)

\* C12 as stated: every POST /send-email whose x-api-key is missing or differs
\* from the configured key is answered 401.
C12_AlwaysUnauthorized ==
    KeyRejected(call) => call.http.status = 401

\* C12: a POST /send-email whose x-api-key is missing or differs from the
\* configured key is answered 401 when its body passes the schema validation
\* and 400 when it does not; in both cases neither sendMail nor an adapter is
\* invoked, in any sequence of requests.
C12_KeyRejectedNeverSends ==
    KeyRejected(call) =>
        /\ call.http.status = (IF SchemaValid(call.body) THEN 401 ELSE 400)
        /\ call.sendMailCalls = 0
        /\ call.smtpCalls = 0
        /\ call.ewsCalls = 0
        /\ call.saveCopyCalls = 0
        /\ call.pc = "done"

C12_Witness ==
    /\ call.origin = "route"
    /\ call.key = Some("wrong")
    /\ SchemaValid(call.body)
    /\ call.http.status = 401
    /\ call.sendMailCalls = 0

\* C16: the client's healthCheck() returns true whenever the service is
\* running and answering its health endpoint, and false only when the service
\* cannot be reached.
C16_HealthCheckTrueWhenRunning ==
    health.pc = "done" => (health.result <=> health.reachable)

C17_OneHandle ==
    /\ created <= 1
    /\ (created = 0) <=> (transporter = "null")
    /\ \A i \in 1..MaxTasks :
           tasks[i].pc # "idle" =>
               (tasks[i].handle # "null" /\ tasks[i].handle = transporter)

C17_HandleKept ==
    transporter # "null" => (transporter' = transporter /\ created' = created)

\* C17: over any interleaving of verifySmtpTransporter and sendEmailViaSmtp
\* calls, overlapping at their awaits and failing or not, the relay handle is
\* constructed at most once: the first getTransporter builds it and every
\* later call gets that same handle.
C17_HandleBuiltOnce == [](C17_OneHandle) /\ [][C17_HandleKept]_vars

C17_Witness ==
    /\ created = 1
    /\ tasks[1].pc = "done" /\ tasks[1].kind = "verify" /\ ~tasks[1].ok
    /\ tasks[2].pc = "awaiting" /\ tasks[2].kind = "send"
    /\ tasks[3].pc = "awaiting" /\ tasks[3].kind = "send"
    /\ tasks[2].handle = tasks[3].handle

ResolvedUser == Coalesce(optional(env.SMTP_USER), optional(env.GMAIL_USER))

ResolvedPassword ==
    Coalesce(optional(env.SMTP_PASSWORD), optional(env.GMAIL_APP_PASSWORD))

PairOf(u, p) ==
    IF IsSet(u) /\ IsSet(p) THEN {Some([user |-> Val(u), pass |-> Val(p)])} ELSE {}

ExplicitPair == PairOf(optional(env.SMTP_USER), optional(env.SMTP_PASSWORD))

ShortcutPair == PairOf(optional(env.GMAIL_USER), optional(env.GMAIL_APP_PASSWORD))

\* C18 as stated: the explicit relay username and password take precedence
\* over GMAIL_USER / GMAIL_APP_PASSWORD as a pair, so resolved credentials
\* are the explicit pair or the shortcut pair, never one member of each.
C18_PrecedenceAsAPair ==
    (config.status = "loaded" /\ IsSet(config.auth)) =>
        config.auth \in (ExplicitPair \cup ShortcutPair)

\* C18: the explicit relay username takes precedence over GMAIL_USER and the
\* explicit relay password over GMAIL_APP_PASSWORD, each on its own; whenever
\* a username is resolved without a password, resolution fails; auth is in
\* the transport descriptor exactly when both a username and a password were
\* resolved, and then holds those two.
C18_CredentialResolution ==
    config.status # "unloaded" =>
        /\ (IsSet(ResolvedUser) /\ ~IsSet(ResolvedPassword)) =>
               (config.status = "failed" /\ config.failedAt = "transport")
        /\ (IsSet(ResolvedUser) /\ IsSet(ResolvedPassword)) =>
               config.failedAt # "transport"
        /\ config.status = "loaded" =>
               /\ IsSet(config.transport.auth) <=>
                      (IsSet(ResolvedUser) /\ IsSet(ResolvedPassword))
               /\ IsSet(config.transport.auth) =>
                      config.transport.auth =
                          Some([user |-> Val(ResolvedUser),
                                pass |-> Val(ResolvedPassword)])
               /\ config.auth = config.transport.auth

C18_Witness ==
    /\ config.status = "loaded"
    /\ env.SMTP_USER = Some("me@relay.dz")
    /\ env.GMAIL_USER = Some("g@gmail.com")
    /\ env.SMTP_PASSWORD = None
    /\ env.GMAIL_APP_PASSWORD = Some("pw2")
    /\ config.transport.auth = Some([user |-> "me@relay.dz", pass |-> "pw2"])

\* C19: the sender address is MAIL_FROM_ADDRESS when given, otherwise the
\* resolved relay username, otherwise resolution fails; in every resolved
\* configuration the sender address is non-empty and a well-formed e-mail
\* address.
C19_SenderAddress ==
    config.status # "unloaded" =>
        LET explicit == optional(env.MAIL_FROM_ADDRESS) IN
        /\ config.status = "loaded" =>
               /\ config.senderAddress # ""
               /\ IsEmail(config.senderAddress)
               /\ IsSet(explicit) => config.senderAddress = Val(explicit)
               /\ ~IsSet(explicit) =>
                      (IsSet(ResolvedUser) /\ config.senderAddress = Val(ResolvedUser))
        /\ (~IsSet(explicit) /\ ~IsSet(ResolvedUser)) => config.status = "failed"

C19_Witness ==
    /\ config.status = "loaded"
    /\ env.MAIL_FROM_ADDRESS = None
    /\ env.SMTP_USER = Some("")
    /\ env.GMAIL_USER = Some("g@gmail.com")
    /\ config.senderAddress = "g@gmail.com"

ExchangeSettings(e) ==
    {e.EXCHANGE_URL, e.EXCHANGE_USERNAME, e.EXCHANGE_PASSWORD, e.EXCHANGE_FROM_EMAIL}

ClearExchange(e) ==
    [e EXCEPT !.EXCHANGE_URL = None, !.EXCHANGE_USERNAME = None,
              !.EXCHANGE_PASSWORD = None, !.EXCHANGE_FROM_EMAIL = None]

\* C15: the Exchange section is present only when all four Exchange settings
\* are non-empty; with a proper subset of them set, resolution raises no
\* error of its own, the section is absent, and the resolved configuration,
\* which is all that startup and the relay sends read, is the one resolved
\* with none of the four set.
C15_PartialExchangeIgnored ==
    config.status # "unloaded" =>
        /\ config.exchange <=> (None \notin ExchangeSettings(env))
        /\ (None \in ExchangeSettings(env)) =>
               /\ ~config.exchange
               /\ config.exchangeFromEmail = None
               /\ config = ResolveConfig(ClearExchange(env))

C15_Witness ==
    /\ config.status = "loaded"
    /\ env.EXCHANGE_URL # None
    /\ env.EXCHANGE_USERNAME # None
    /\ env.EXCHANGE_PASSWORD = None
    /\ env.EXCHANGE_FROM_EMAIL # None
    /\ env.MAIL_PROVIDER = None
    /\ ~config.exchange
    /\ config.defaultProvider = "smtp"

\* C20: every message the Exchange adapter submits has the configured
\* Exchange from-address as its sender address, never a value of the request
\* nor the relay sender address; only the display name varies: the supplied
\* fromName, or the fixed default name when none is supplied.
C20_ExchangeSenderAddress ==
    call.saveCopyCalls = 1 =>
        LET m == Val(call.message)
            p == Val(call.payload)
        IN /\ config.exchangeFromEmail # None
           /\ m.fromAddress = Val(config.exchangeFromEmail)
           /\ m.fromAddress # config.senderAddress
           /\ m.fromAddress \notin {p.to, p.subject}
           /\ m.fromName = (IF p.fromName \in {None, Some("")} THEN "DjazairMed"
                            ELSE Val(p.fromName))

C20_Witness ==
    /\ call.origin = "adapter"
    /\ call.saveCopyCalls = 1
    /\ Val(call.payload).fromName = None
    /\ Val(call.message).fromName = "DjazairMed"
    /\ Val(call.message).fromAddress = "from@ex.dz"

\* C13: sanitizing is idempotent: for every HTML input h (whole document,
\* fragment with styles, fragment without body content),
\* sanitize(sanitize(h)) = sanitize(h).
C13_SanitizeIdempotent ==
    san.applied => san.twice = san.once

\* C14: the sanitizer's output is a single style block holding the style
\* content found under head (only when that is non-empty) followed by the
\* inner content of body, and never contains a doctype or an html or head
\* wrapper, also when body is empty and when head holds several styles.
C14_StyleThenBodyOnly ==
    san.applied =>
        LET d == load(san.h)
            css == IF d.firstStyle = None THEN "" ELSE Val(d.firstStyle)
        IN /\ san.once = (IF css # "" THEN StyleElement(css) \o "\n" ELSE "") \o d.body
           /\ ~includes(san.once, "<!DOCTYPE")
           /\ ~includes(san.once, "<html>")
           /\ ~includes(san.once, "<head>")

Supplied(o) == o \notin {None, Some("")}

\* C21: Exchange body selection, for an adapter whose configuration and
\* service object are in place: with html supplied (non-empty), with or
\* without text, the submitted body is the sanitized html of type HTML; with
\* only text supplied it is the text unchanged, of type Text; with neither
\* the adapter throws a send error and SendAndSaveCopy is never called.
C21_BodySelection ==
    (call.origin = "adapter" /\ call.pc # "idle") =>
        LET p == Val(call.payload) IN
        /\ call.saveCopyCalls = 1 =>
               LET m == Val(call.message) IN
               /\ Supplied(p.html) =>
                      (m.bodyType = "HTML" /\ m.body = sanitizeHtmlForEWS(Val(p.html)))
               /\ (~Supplied(p.html) /\ Supplied(p.text)) =>
                      (m.bodyType = "Text" /\ m.body = Val(p.text))
        /\ (~Supplied(p.html) /\ ~Supplied(p.text)) =>
               /\ call.saveCopyCalls = 0
               /\ call.message = None
               /\ call.adapterResult.kind = "throw"
               /\ Val(call.adapterResult.error).name # "EWSSendError" =>
                      /\ Val(call.adapterResult.error).name = "EWSConfigError"
                      /\ \/ ~config.exchange
                         \/ Val(call.adapterResult.error).message =
                                "Failed to create Exchange service"
        /\ (config.exchange /\ (Supplied(p.html) \/ Supplied(p.text))
               /\ call.saveCopyCalls = 0) =>
               /\ call.adapterResult.kind = "throw"
               /\ Val(call.adapterResult.error).name = "EWSConfigError"

C21_Witness ==
    /\ call.origin = "adapter"
    /\ call.saveCopyCalls = 1
    /\ Val(call.payload).html = Some(StyledDocument)
    /\ Val(call.payload).text = Some("hey")
    /\ Val(call.message).bodyType = "HTML"
    /\ Val(call.message).body = "<style>.a{color:red}</style>\n<p>hi</p>"

\* the class of a failure text, by the first group of markers found in it
FailureClass(t) ==
    IF includes(t, "authentication") \/ includes(t, "credentials") THEN "auth"
    ELSE IF includes(t, "timeout") \/ includes(t, "ETIMEDOUT") THEN "timeout"
    ELSE IF includes(t, "ENOTFOUND") \/ includes(t, "ECONNREFUSED") THEN "unreachable"
    ELSE "generic"

SaveCopyFailed ==
    /\ call.origin = "adapter"
    /\ call.pc = "done"
    /\ call.saveCopyCalls = 1
    /\ call.adapterResult.kind = "throw"

\* C22 as stated: the four classes are mapped to four distinct error kinds.
C22_FourDistinctKinds ==
    SaveCopyFailed =>
        LET e == Val(call.adapterResult.error)
            t == Val(e.cause).message
        IN \A u \in EwsFailureTexts :
               FailureClass(u) # FailureClass(t) => ewsClassify(u).name # e.name

\* C22: every failure of SendAndSaveCopy is classified from its message text
\* into exactly one of authentication/credentials, timeout, unreachable or
\* generic (first match in that order, anything unmatched being generic); the
\* first three are thrown as the one kind EWSConnectionError and differ only
\* in their message, the generic one as EWSSendError; the original error is
\* kept as cause.
C22_Classification ==
    SaveCopyFailed =>
        LET e == Val(call.adapterResult.error)
            c == Val(e.cause)
            class == FailureClass(c.message)
        IN /\ c.name = "Error" /\ c.message \in EwsFailureTexts /\ c.cause = None
           /\ e.name = (IF class = "generic" THEN "EWSSendError"
                         ELSE "EWSConnectionError")
           /\ e.message = (CASE class = "auth" -> "Authentication failed"
                             [] class = "timeout" -> "Connection timeout"
                             [] class = "unreachable" -> "Cannot reach Exchange server"
                             [] OTHER -> "Failed to send email")
           /\ \A u \in EwsFailureTexts :
                  FailureClass(u) # class => ewsClassify(u).message # e.message

C22_Witness ==
    /\ SaveCopyFailed
    /\ Val(Val(call.adapterResult.error).cause).message = "connect ECONNREFUSED"
    /\ Val(call.adapterResult.error).name = "EWSConnectionError"
    /\ Val(call.adapterResult.error).message = "Cannot reach Exchange server"

C23_OneAdapterOnce ==
    call.sendMailCalls = 1 =>
        /\ call.smtpCalls + call.ewsCalls <= 1
        /\ call.saveCopyCalls <= call.ewsCalls
        /\ call.selectedProvider = Some("smtp") => call.ewsCalls = 0
        /\ call.selectedProvider = Some("ews") => call.smtpCalls = 0
        /\ call.selectedProvider = None => (call.smtpCalls = 0 /\ call.ewsCalls = 0)

C23_NoRetry ==
    (call.sendMailCalls = 1 /\ call'.pc # "idle") =>
        /\ call'.smtpCalls = call.smtpCalls
        /\ call'.ewsCalls = call.ewsCalls
        /\ call'.saveCopyCalls = call.saveCopyCalls
        /\ call'.selectedProvider = call.selectedProvider

\* C23: each sendMail call invokes at most one adapter and at most once: when
\* the adapter fails sendMail neither calls it again nor calls the other one,
\* and a call resolved to the relay never reaches the Exchange adapter, nor
\* one resolved to Exchange the relay adapter.
C23_AtMostOneAdapterCall == [](C23_OneAdapterOnce) /\ [][C23_NoRetry]_vars

C23_Witness ==
    /\ config.exchange
    /\ call.pc = "done"
    /\ call.selectedProvider = Some("smtp")
    /\ call.adapterResult.kind = "throw"
    /\ call.result.kind = "throw"
    /\ call.smtpCalls = 1
    /\ call.ewsCalls = 0

C24_ServingOnlyVerified ==
    /\ phase = "serving" => (verify.relay # "unknown" /\ verify.thrown = None)
    /\ IsSet(verify.thrown) => (phase = "exited" /\ verify.exitCode = Some(1))
    /\ phase = "exited" => (IsSet(verify.thrown) /\ call.origin # "route")
    /\ call.origin = "route" => (phase = "serving" /\ verify.thrown = None)
    /\ (health.pc = "done" /\ health.reachable) => verify.thrown = None

C24_ExitedStays ==
    /\ phase = "exited" => (phase' = "exited" /\ call'.origin # "route")
    /\ (phase # "serving" /\ phase' = "serving") => phase = "verifying"

\* C24: the HTTP server starts listening only after verifyMailTransporter has
\* completed successfully; when the startup verification fails the server
\* never serves, no request is ever dispatched and the process exits with
\* code 1.
C24_ListenAfterVerify == [](C24_ServingOnlyVerified) /\ [][C24_ExitedStays]_vars

C24_Witness ==
    /\ phase = "exited"
    /\ verify.relay = "failed"
    /\ IsSet(verify.thrown)
    /\ Val(verify.thrown).name = "SMTPConfigError"
    /\ verify.exitCode = Some(1)
    /\ health.pc = "done"
    /\ ~health.reachable

====
